---- MODULE Spec2Model ----
(***************************************************************************)
(* SQL Lab initial-state reconciliation (getInitialState.js).              *)
(*                                                                         *)
(* getInitialState merges the tab state sent by the backend with the       *)
(* `redux` item kept in the browser's localStorage.  The function is       *)
(* synchronous; the model follows it statement group by statement group    *)
(* (pc), so that an exception raised inside the try block leaves exactly   *)
(* the assignments made before it.                                         *)
(***************************************************************************)
EXTENDS Integers, Sequences, FiniteSets

(***************************************************************************)
(* JavaScript values.  A value is a record [t, v]: t is the JS type and v  *)
(* the payload.  A string is either "digits" (the canonical decimal form   *)
(* of the natural number v, e.g. '12') or "text" (any other string, v      *)
(* only tells texts apart; text 0 is the empty string).  === on these      *)
(* values is record equality: 1 and '1' differ.                            *)
(***************************************************************************)
Undefined == [t |-> "undefined", v |-> 0]
Null == [t |-> "null", v |-> 0]
Num(n) == [t |-> "number", v |-> n]
Digits(n) == [t |-> "digits", v |-> n]
Text(n) == [t |-> "text", v |-> n]
Bool(b) == [t |-> "boolean", v |-> IF b THEN 1 ELSE 0]
Opaque(n) == [t |-> "object", v |-> n]
NaN == [t |-> "NaN", v |-> 0]

\* texts the code or its inputs name
UntitledQuery == Text(1)
DefaultSql == Text(2)
TextUndefined == Text(3)
TextNull == Text(4)
TextObject == Text(5)
TextTrue == Text(6)
TextFalse == Text(7)
TextNaN == Text(9)

\* JS truthiness (the operand of ||, && and ?:)
Truthy(x) ==
    CASE x.t = "undefined" -> FALSE
      [] x.t = "null" -> FALSE
      [] x.t = "NaN" -> FALSE
      [] x.t = "boolean" -> x.v = 1
      [] x.t = "number" -> x.v # 0
      [] x.t = "text" -> x.v # 0
      [] OTHER -> TRUE

\* a || b
Or(a, b) == IF Truthy(a) THEN a ELSE b

\* String(x), x.toString(): also the conversion applied to a computed
\* property key  [x]: ...  (the numbers of the model are naturals)
toString(x) ==
    CASE x.t = "number" -> Digits(x.v)
      [] x.t = "NaN" -> TextNaN
      [] x.t = "undefined" -> TextUndefined
      [] x.t = "null" -> TextNull
      [] x.t = "object" -> TextObject
      [] x.t = "boolean" -> IF x.v = 1 THEN TextTrue ELSE TextFalse
      [] OTHER -> x

\* Number(x) for the values a timestamp takes
ToNumber(x) ==
    CASE x.t = "digits" -> Num(x.v)
      [] x.t = "number" -> x
      [] x.t = "boolean" -> Num(x.v)
      [] x.t = "null" -> Num(0)
      [] x.t = "text" /\ x.v = 0 -> Num(0)
      [] OTHER -> NaN

(***************************************************************************)
(* Plain objects with a fixed set of field names are functions from field  *)
(* names to values; a field that is not in the domain is absent.           *)
(***************************************************************************)
Get(o, k) == IF k \in DOMAIN o THEN o[k] ELSE Undefined
EmptyObject == [k \in {} |-> Undefined]

\* { ...a, ...b }
Spread(a, b) ==
    [k \in (DOMAIN a) \cup (DOMAIN b) |-> IF k \in DOMAIN b THEN b[k] ELSE a[k]]

\* { ...o, [k]: x }
With(o, k, x) == [f \in (DOMAIN o) \cup {k} |-> IF f = k THEN x ELSE o[f]]

\* const { k, ...rest } = o
Without(o, k) == [f \in (DOMAIN o) \ {k} |-> o[f]]

(***************************************************************************)
(* Objects used as dictionaries (queryEditors, tables, queries) are        *)
(* sequences of [key, val] entries in the order the keys were created.     *)
(* Object.values / Object.entries enumerate integer-like keys first, in    *)
(* ascending numeric order, and the other keys in creation order.          *)
(***************************************************************************)
EmptyDict == << >>

HasKey(d, k) == \E i \in 1..Len(d) : d[i].key = k

Lookup(d, k) ==
    IF HasKey(d, k)
    THEN d[CHOOSE i \in 1..Len(d) : d[i].key = k].val
    ELSE EmptyObject

\* a list that always grows, in place of a keyed object
PutAppending(d, id, x) == Append(d, [key |-> toString(id), val |-> x])

\* { ...d, [id]: x } : the key is the string form of id
Put(d, id, x) ==
    LET k == toString(id) IN
    IF HasKey(d, k)
    THEN [i \in 1..Len(d) |-> IF d[i].key = k THEN [key |-> k, val |-> x] ELSE d[i]]
    ELSE Append(d, [key |-> k, val |-> x])

IsIndexKey(k) == k.t = "digits"

RECURSIVE Ascending(_)
Ascending(S) ==
    IF S = {} THEN << >>
    ELSE LET m == CHOOSE x \in S : \A y \in S : x <= y
         IN <<m>> \o Ascending(S \ {m})

\* own property keys in enumeration order
OwnKeys(d) ==
    LET idx == Ascending({d[i].key.v : i \in {j \in 1..Len(d) : IsIndexKey(d[j].key)}})
        rest == SelectSeq(d, LAMBDA e : ~IsIndexKey(e.key))
    IN [i \in 1..Len(idx) |-> Digits(idx[i])] \o [i \in 1..Len(rest) |-> rest[i].key]

ObjectValues(d) ==
    LET ks == OwnKeys(d) IN [i \in 1..Len(ks) |-> Lookup(d, ks[i])]

ObjectEntries(d) ==
    LET ks == OwnKeys(d) IN [i \in 1..Len(ks) |-> [key |-> ks[i], val |-> Lookup(d, ks[i])]]

SeqsUpTo(S, n) == UNION {[1..k -> S] : k \in 0..n}

(***************************************************************************)
(* Inputs.  Server tab ids are numbers; a tab's label is derived from its  *)
(* id.  The active tab's table_schemas all belong to the active tab.       *)
(***************************************************************************)
LabelOf(n) == Text(10 + n)

TabStateId(n) == [id |-> Num(n), label |-> LabelOf(n)]

\* a nullable object: JSON null, or the object `fields`
NullObject == [null |-> TRUE, fields |-> EmptyObject]
Object(o) == [null |-> FALSE, fields |-> o]

Description(n) ==
    Object([k \in {"dataPreviewQueryId", "columns"} |->
               IF k = "dataPreviewQueryId" THEN Text(60 + n) ELSE Opaque(n)])

TableSchema(n, tab, expanded, described) ==
    [id |-> Num(n), tab_state_id |-> Num(tab), database_id |-> Num(1),
     schema |-> Text(8), table |-> Text(70 + n), expanded |-> Bool(expanded),
     description |-> IF described THEN Description(n) ELSE NullObject]

NoActiveTab ==
    [present |-> FALSE, id |-> Undefined, label |-> Undefined, sql |-> Undefined,
     latest_query |-> Undefined, saved_query |-> Undefined, autorun |-> Undefined,
     template_params |-> Undefined, database_id |-> Undefined, schema |-> Undefined,
     query_limit |-> Undefined, hide_left_bar |-> Undefined, table_schemas |-> << >>]

\* latest_query and saved_query are null or an object {id}; Opaque(q) stands
\* for the object whose id is Text(q).  Tab 1 has never run a query and has
\* no SQL text yet; the other tabs have.
ActiveTab(n, schemas) ==
    [present |-> TRUE, id |-> Num(n), label |-> LabelOf(n),
     sql |-> IF n = 1 THEN Text(0) ELSE Text(20 + n),
     latest_query |-> IF n = 1 THEN Null ELSE Opaque(80 + n),
     saved_query |-> IF n = 1 THEN Null ELSE Opaque(90 + n),
     autorun |-> Bool(FALSE),
     template_params |-> Null, database_id |-> Num(1), schema |-> Text(8),
     query_limit |-> Num(1000), hide_left_bar |-> Bool(FALSE),
     table_schemas |-> schemas]

IdOfObject(o) == Text(o.v)

VARIABLES
    props,               \* the argument of getInitialState
    localStorage,        \* the browser store: its `redux` item
    pc,                  \* position in getInitialState
    queryEditors,        \* let queryEditors = {}
    tables,              \* let tables = {}
    queries,             \* const queries = { ...queries_ }
    tabHistory,          \* const tabHistory
    unsavedQueryEditor,  \* let unsavedQueryEditor = {}
    sqlLab,              \* const { sqlLab } = JSON.parse(...)
    result               \* the returned snapshot (its sqlLab part)

vars == <<props, localStorage, pc, queryEditors, tables, queries, tabHistory,
          unsavedQueryEditor, sqlLab, result>>

(***************************************************************************)
(* Server-state stage (lines 48-138).                                      *)
(***************************************************************************)
ValidationResult == Opaque(0)   \* { id: null, errors: [], completed: false }

defaultQueryEditor ==
    [id |-> Null, loaded |-> Bool(TRUE), name |-> UntitledQuery, sql |-> DefaultSql,
     selectedText |-> Null, latestQueryId |-> Null, autorun |-> Bool(FALSE),
     templateParams |-> Null, dbId |-> props.defaultDbId,
     queryLimit |-> props.common.conf.DEFAULT_SQLLAB_LIMIT,
     validationResult |-> ValidationResult, hideLeftBar |-> Bool(FALSE)]

\* the body of tabStateIds.forEach: the editor built for one {id, label}
ServerQueryEditor(tab) ==
    LET activeTab == props.active_tab IN
    IF activeTab.present /\ activeTab.id = tab.id
    THEN [id |-> toString(tab.id), loaded |-> Bool(TRUE), name |-> activeTab.label,
          sql |-> Or(activeTab.sql, Undefined), selectedText |-> Undefined,
          latestQueryId |-> IF Truthy(activeTab.latest_query)
                            THEN IdOfObject(activeTab.latest_query) ELSE Null,
          remoteId |-> IF activeTab.saved_query \in {Null, Undefined}
                       THEN Undefined ELSE IdOfObject(activeTab.saved_query),
          autorun |-> activeTab.autorun,
          templateParams |-> Or(activeTab.template_params, Undefined),
          dbId |-> activeTab.database_id, schema |-> activeTab.schema,
          queryLimit |-> activeTab.query_limit,
          validationResult |-> ValidationResult,
          hideLeftBar |-> activeTab.hide_left_bar]
    ELSE Spread(defaultQueryEditor,
                [id |-> toString(tab.id), loaded |-> Bool(FALSE), name |-> tab.label])

RECURSIVE AddServerEditors(_, _)
AddServerEditors(editors, tabs) ==
    IF tabs = << >> THEN editors
    ELSE LET queryEditor == ServerQueryEditor(Head(tabs))
         IN AddServerEditors(Put(editors, queryEditor.id, queryEditor), Tail(tabs))

\* the table built from one table_schemas entry with a description
ServerTable(tableSchema) ==
    LET description == tableSchema.description.fields IN
    [dbId |-> tableSchema.database_id,
     queryEditorId |-> toString(tableSchema.tab_state_id),
     schema |-> tableSchema.schema, name |-> tableSchema.table,
     expanded |-> tableSchema.expanded, id |-> tableSchema.id,
     dataPreviewQueryId |-> Get(description, "dataPreviewQueryId"),
     persistData |-> Without(description, "dataPreviewQueryId"),
     initialized |-> Bool(TRUE)]

RECURSIVE AddServerTables(_, _)
AddServerTables(tbls, schemas) ==
    IF schemas = << >> THEN tbls
    ELSE LET table == ServerTable(Head(schemas))
         IN AddServerTables(Put(tbls, table.id, table), Tail(schemas))

InitialTabHistory ==
    IF props.active_tab.present THEN <<toString(props.active_tab.id)>> ELSE << >>

LoadTabStates ==
    /\ pc = "tabStateIds"
    /\ queryEditors' = AddServerEditors(EmptyDict, props.tab_state_ids)
    /\ pc' = "activeTab"
    /\ UNCHANGED <<props, localStorage, tables, queries, tabHistory,
                   unsavedQueryEditor, sqlLab, result>>

LoadActiveTab ==
    /\ pc = "activeTab"
    /\ tabHistory' = InitialTabHistory
    /\ tables' = IF props.active_tab.present
                 THEN AddServerTables(EmptyDict,
                          SelectSeq(props.active_tab.table_schemas,
                                    LAMBDA ts : ~ts.description.null))
                 ELSE EmptyDict
    /\ queries' = props.queries
    /\ pc' = "localStorage"
    /\ UNCHANGED <<props, localStorage, queryEditors, unsavedQueryEditor, sqlLab, result>>

(***************************************************************************)
(* Legacy-state stage (lines 140-195).  The `redux` item is modelled by    *)
(* what reading it yields: nothing (getItem returns null), a string that   *)
(* JSON.parse rejects, or a parsed value with or without a sqlLab member.  *)
(* `has` lists the members the parsed sqlLab object owns; reading a member *)
(* it does not own yields undefined.                                       *)
(***************************************************************************)
BlankSqlLab ==
    [has |-> {}, queryEditors |-> << >>, tables |-> << >>, queries |-> EmptyDict,
     tabHistory |-> << >>, unsavedQueryEditor |-> EmptyObject]

NoItem == [kind |-> "none", hasSqlLab |-> FALSE, sqlLab |-> BlankSqlLab]
Unparseable == [kind |-> "unparseable", hasSqlLab |-> FALSE, sqlLab |-> BlankSqlLab]
JsonNull == [kind |-> "jsonNull", hasSqlLab |-> FALSE, sqlLab |-> BlankSqlLab]
JsonWithoutSqlLab == [kind |-> "json", hasSqlLab |-> FALSE, sqlLab |-> BlankSqlLab]
Json(lab) == [kind |-> "json", hasSqlLab |-> TRUE, sqlLab |-> lab]

\* localStorage.getItem('redux') && JSON.parse(localStorage.getItem('redux')).sqlLab
\* is evaluated without an exception and is truthy
HasLegacyState(item) == item.kind = "json" /\ item.hasSqlLab

\* a try block that starts after the item has been read and parsed
ThrowsInsideMergeOnly(at, item, lab) ==
    \/ at = "legacyTables" /\ "tables" \notin lab.has
    \/ at = "legacyQueries" /\ "queries" \notin lab.has
    \/ at = "legacyTabHistory" /\ "tabHistory" \notin lab.has

\* the statement at `at` raises and the catch block is entered: JSON.parse on
\* a bad string, a member of null, .length, .reduce or Object.values of
\* undefined, spreading undefined
Throws(at, item, lab) ==
    \/ at = "localStorage" /\ item.kind \in {"unparseable", "jsonNull"}
    \/ at = "localStorage" /\ HasLegacyState(item) /\ "queryEditors" \notin item.sqlLab.has
    \/ at = "legacyTables" /\ "tables" \notin lab.has
    \/ at = "legacyQueries" /\ "queries" \notin lab.has
    \/ at = "legacyTabHistory" /\ "tabHistory" \notin lab.has

\* the object one legacy editor becomes (lines 162-169)
MergedQueryEditor(existing, qe, unsaved) ==
    LET named == With(Spread(existing, qe), "name", Or(Get(qe, "title"), Get(qe, "name")))
        edited == IF Get(unsaved, "id") = Get(qe, "id") THEN Spread(named, unsaved)
                  ELSE named
    IN With(With(edited, "inLocalStorage", Bool(TRUE)), "loaded", Bool(TRUE))

RECURSIVE MergeQueryEditors(_, _, _)
MergeQueryEditors(editors, legacy, unsaved) ==
    IF legacy = << >> THEN editors
    ELSE LET qe == Head(legacy)
             key == toString(Get(qe, "id"))
         IN MergeQueryEditors(
                Put(editors, Get(qe, "id"),
                    MergedQueryEditor(Lookup(editors, key), qe, unsaved)),
                Tail(legacy), unsaved)

\* sqlLab.tables.reduce(..., tables): `server` is the `tables` variable the
\* callback reads, `merged` the accumulator, `expandedTables` the Set
RECURSIVE MergeTables(_, _, _, _)
MergeTables(merged, legacy, server, expandedTables) ==
    IF legacy = << >> THEN merged
    ELSE LET table == Head(legacy)
             owner == Get(table, "queryEditorId")
             expanded == owner \notin expandedTables
             key == toString(Get(table, "id"))
         IN MergeTables(
                Put(merged, Get(table, "id"),
                    With(Spread(Lookup(server, key), table), "expanded", Bool(expanded))),
                Tail(legacy), server, expandedTables \cup {owner})

RECURSIVE MergeQueries(_, _)
MergeQueries(qs, legacy) ==
    IF legacy = << >> THEN qs
    ELSE LET query == Head(legacy)
         IN MergeQueries(
                Put(qs, Get(query, "id"), With(query, "inLocalStorage", Bool(TRUE))),
                Tail(legacy))

NoLegacyState ==
    /\ pc = "localStorage"
    /\ localStorage.redux.kind \in {"none", "json"}
    /\ ~HasLegacyState(localStorage.redux)
    /\ pc' = "return"
    /\ UNCHANGED <<props, localStorage, queryEditors, tables, queries, tabHistory,
                   unsavedQueryEditor, sqlLab, result>>

\* the cleanup without its removeItem
MigrationKeepsItem ==
    /\ pc = "localStorage"
    /\ HasLegacyState(localStorage.redux)
    /\ ~Throws(pc, localStorage.redux, sqlLab)
    /\ Len(localStorage.redux.sqlLab.queryEditors) = 0
    /\ sqlLab' = localStorage.redux.sqlLab
    /\ pc' = "return"
    /\ UNCHANGED <<props, localStorage, queryEditors, tables, queries, tabHistory,
                   unsavedQueryEditor, result>>

MigrationWasSuccessful ==
    /\ pc = "localStorage"
    /\ HasLegacyState(localStorage.redux)
    /\ ~Throws(pc, localStorage.redux, sqlLab)
    /\ Len(localStorage.redux.sqlLab.queryEditors) = 0
    /\ sqlLab' = localStorage.redux.sqlLab
    /\ localStorage' = [localStorage EXCEPT !.redux = NoItem]
    /\ pc' = "return"
    /\ UNCHANGED <<props, queryEditors, tables, queries, tabHistory,
                   unsavedQueryEditor, result>>

ReadLegacyState ==
    /\ pc = "localStorage"
    /\ HasLegacyState(localStorage.redux)
    /\ ~Throws(pc, localStorage.redux, sqlLab)
    /\ Len(localStorage.redux.sqlLab.queryEditors) # 0
    /\ sqlLab' = localStorage.redux.sqlLab
    /\ unsavedQueryEditor' =
           IF "unsavedQueryEditor" \in localStorage.redux.sqlLab.has
           THEN localStorage.redux.sqlLab.unsavedQueryEditor
           ELSE EmptyObject
    /\ pc' = "legacyEditors"
    /\ UNCHANGED <<props, localStorage, queryEditors, tables, queries, tabHistory, result>>

MergeLegacyEditors ==
    /\ pc = "legacyEditors"
    /\ queryEditors' = MergeQueryEditors(queryEditors, sqlLab.queryEditors, unsavedQueryEditor)
    /\ pc' = "legacyTables"
    /\ UNCHANGED <<props, localStorage, tables, queries, tabHistory,
                   unsavedQueryEditor, sqlLab, result>>

MergeLegacyTables ==
    /\ pc = "legacyTables"
    /\ ~Throws(pc, localStorage.redux, sqlLab)
    /\ tables' = MergeTables(tables, sqlLab.tables, tables, {})
    /\ pc' = "legacyQueries"
    /\ UNCHANGED <<props, localStorage, queryEditors, queries, tabHistory,
                   unsavedQueryEditor, sqlLab, result>>

MergeLegacyQueries ==
    /\ pc = "legacyQueries"
    /\ ~Throws(pc, localStorage.redux, sqlLab)
    /\ queries' = MergeQueries(queries, ObjectValues(sqlLab.queries))
    /\ pc' = "legacyTabHistory"
    /\ UNCHANGED <<props, localStorage, queryEditors, tables, tabHistory,
                   unsavedQueryEditor, sqlLab, result>>

PushLegacyTabHistory ==
    /\ pc = "legacyTabHistory"
    /\ ~Throws(pc, localStorage.redux, sqlLab)
    /\ tabHistory' = tabHistory \o sqlLab.tabHistory
    /\ pc' = "return"
    /\ UNCHANGED <<props, localStorage, queryEditors, tables, queries,
                   unsavedQueryEditor, sqlLab, result>>

\* catch (error) { /* continue regardless of error */ }
CatchError ==
    /\ Throws(pc, localStorage.redux, sqlLab)
    /\ pc' = "return"
    /\ UNCHANGED <<props, localStorage, queryEditors, tables, queries, tabHistory,
                   unsavedQueryEditor, sqlLab, result>>

(***************************************************************************)
(* Normalization and assembly (lines 22-28, 197-234).                      *)
(***************************************************************************)
Last(s) == IF s = << >> THEN Undefined ELSE s[Len(s)]

RECURSIVE DedupeFrom(_, _)
DedupeFrom(acc, rest) ==
    IF rest = << >> THEN acc
    ELSE DedupeFrom(IF Last(acc) = Head(rest) THEN acc ELSE Append(acc, Head(rest)),
                    Tail(rest))

\* result.includes(tabId) in place of the comparison with the last entry
RECURSIVE DedupeAnywhere(_, _)
DedupeAnywhere(acc, rest) ==
    IF rest = << >> THEN acc
    ELSE DedupeAnywhere(IF \E i \in 1..Len(acc) : acc[i] = Head(rest)
                        THEN acc ELSE Append(acc, Head(rest)),
                        Tail(rest))

dedupeKeepingFirstVisit(history) == DedupeAnywhere(<< >>, history)

dedupeTabHistory(history) == DedupeFrom(<< >>, history)

\* { ...query, ...(query.startDttm && {...}), ...(query.endDttm && {...}) }
NormalizedQuery(query) ==
    LET started == IF Truthy(Get(query, "startDttm"))
                   THEN With(query, "startDttm", ToNumber(query.startDttm)) ELSE query
    IN IF Truthy(Get(query, "endDttm"))
       THEN With(started, "endDttm", ToNumber(query.endDttm)) ELSE started

RECURSIVE FromEntries(_, _)
FromEntries(d, entries) ==
    IF entries = << >> THEN d
    ELSE FromEntries(Put(d, Head(entries).key, NormalizedQuery(Head(entries).val)),
                     Tail(entries))

NoResult ==
    [queries |-> EmptyDict, queryEditors |-> << >>, tabHistory |-> << >>,
     tables |-> << >>, unsavedQueryEditor |-> EmptyObject]

Return ==
    /\ pc = "return"
    /\ result' = [queries |-> FromEntries(EmptyDict, ObjectEntries(queries)),
                  queryEditors |-> ObjectValues(queryEditors),
                  tabHistory |-> dedupeTabHistory(tabHistory),
                  tables |-> ObjectValues(tables),
                  unsavedQueryEditor |-> unsavedQueryEditor]
    /\ pc' = "done"
    /\ UNCHANGED <<props, localStorage, queryEditors, tables, queries, tabHistory,
                   unsavedQueryEditor, sqlLab>>

Next ==
    \/ LoadTabStates
    \/ LoadActiveTab
    \/ NoLegacyState
    \/ MigrationWasSuccessful
    \/ ReadLegacyState
    \/ MergeLegacyEditors
    \/ MergeLegacyTables
    \/ MergeLegacyQueries
    \/ PushLegacyTabHistory
    \/ CatchError
    \/ Return

(***************************************************************************)
(* Bounds and input space.                                                 *)
(***************************************************************************)
MaxTabs == 2            \* length of tab_state_ids
MaxServerTables == 2    \* length of active_tab.table_schemas
MaxLegacyEditors == 2   \* length of the legacy queryEditors
MaxLegacyTables == 2    \* length of the legacy tables
MaxTabHistory == 3      \* length of the legacy tabHistory

AllMembers == {"queryEditors", "tables", "queries", "tabHistory", "unsavedQueryEditor"}

\* legacy editors: a shortid-like id, a numeric id or a digit-string id; with
\* a name, a title, both or neither
LegacyEditor(id, hasName, hasTitle) ==
    LET base == [k \in {"id", "sql", "autorun"} |->
                    CASE k = "id" -> id
                      [] k = "sql" -> Text(30)
                      [] OTHER -> Bool(TRUE)]
        n == IF hasName THEN With(base, "name", Text(31)) ELSE base
    IN IF hasTitle THEN With(n, "title", Text(32)) ELSE n

LegacyEditorIds == {Num(1), Digits(2), Text(40)}

LegacyEditors ==
    {LegacyEditor(id, n, t) : id \in LegacyEditorIds, n \in BOOLEAN, t \in BOOLEAN}

UnsavedEditor(id) ==
    [k \in {"id", "name", "sql"} |->
        CASE k = "id" -> id [] k = "name" -> Text(33) [] OTHER -> Text(34)]

\* legacy tables; the table with id 'text 43' was collapsed, the others expanded
LegacyTable(id, owner) ==
    [k \in {"id", "queryEditorId", "name", "expanded"} |->
        CASE k = "id" -> id
          [] k = "queryEditorId" -> owner
          [] k = "name" -> Text(35)
          [] OTHER -> Bool(id # Text(43))]

LegacyTables ==
    {LegacyTable(id, owner) : id \in {Num(1), Text(42), Text(43)},
                              owner \in {Digits(1), Text(40)}}

ServerTableSchemas ==
    {TableSchema(1, 1, TRUE, TRUE), TableSchema(2, 1, TRUE, TRUE),
     TableSchema(2, 1, FALSE, TRUE), TableSchema(3, 1, TRUE, FALSE)}

Query(id, startDttm) ==
    IF startDttm = Undefined
    THEN [k \in {"id", "sql"} |-> IF k = "id" THEN id ELSE Text(36)]
    ELSE [k \in {"id", "sql", "startDttm", "endDttm"} |->
             CASE k = "id" -> id
               [] k = "sql" -> Text(36)
               [] k = "startDttm" -> startDttm
               [] OTHER -> Num(0)]

QueryDict(qs) == [i \in 1..Len(qs) |-> [key |-> toString(qs[i].id), val |-> qs[i]]]

ServerQueries ==
    {EmptyDict,
     QueryDict(<<Query(Text(50), Digits(5))>>),
     QueryDict(<<Query(Text(51), Num(5)), Query(Text(50), Undefined)>>)}

TypicalLab ==
    [has |-> AllMembers,
     queryEditors |-> <<LegacyEditor(Text(40), TRUE, FALSE)>>,
     tables |-> <<LegacyTable(Text(42), Text(40))>>,
     queries |-> QueryDict(<<Query(Text(50), Digits(7))>>),
     tabHistory |-> <<Text(40)>>,
     unsavedQueryEditor |-> UnsavedEditor(Text(40))]

\* TypicalLab whose member m is missing
LabWithout(m) ==
    [TypicalLab EXCEPT !.has = AllMembers \ {m}, ![m] = BlankSqlLab[m]]

MigratedLab == [TypicalLab EXCEPT !.queryEditors = << >>]

BasicItems ==
    {NoItem, Unparseable, JsonNull, JsonWithoutSqlLab, Json(TypicalLab), Json(MigratedLab)}
        \cup {Json(LabWithout(m)) : m \in AllMembers}

Tabs(ids) == [i \in 1..Len(ids) |-> TabStateId(ids[i])]

Inputs(tabs, active, items, qs) ==
    [tab_state_ids : tabs, active_tab : active, redux : items, queries : qs]

\* every tab list and active tab, against every kind of stored item
TabInputs ==
    Inputs({Tabs(ids) : ids \in SeqsUpTo({1, 2}, MaxTabs)},
           {NoActiveTab, ActiveTab(1, << >>), ActiveTab(2, << >>)},
           BasicItems, ServerQueries)

\* every legacy editor list, with and without unsaved edits
EditorInputs ==
    Inputs({Tabs(<< >>), Tabs(<<2, 1>>)},
           {NoActiveTab, ActiveTab(1, << >>)},
           {Json([TypicalLab EXCEPT !.queryEditors = qes, !.unsavedQueryEditor = u,
                                    !.has = IF u = EmptyObject
                                            THEN AllMembers \ {"unsavedQueryEditor"}
                                            ELSE AllMembers]) :
               qes \in SeqsUpTo(LegacyEditors, MaxLegacyEditors) \ {<< >>},
               u \in {EmptyObject, UnsavedEditor(Text(40)), UnsavedEditor(Digits(1))}},
           {EmptyDict})

\* every server table list against every legacy table list
TableInputs ==
    Inputs({Tabs(<<1>>)},
           {NoActiveTab} \cup
               {ActiveTab(1, ts) : ts \in SeqsUpTo(ServerTableSchemas, MaxServerTables)},
           {NoItem} \cup
               {Json([TypicalLab EXCEPT !.tables = ts]) :
                   ts \in SeqsUpTo(LegacyTables, MaxLegacyTables)},
           {EmptyDict})

\* every legacy tab history, merged or discarded
HistoryInputs ==
    Inputs({Tabs(<<1>>)},
           {NoActiveTab, ActiveTab(1, << >>), ActiveTab(2, << >>)},
           {Json([lab EXCEPT !.tabHistory = h]) :
               lab \in {TypicalLab, MigratedLab},
               h \in SeqsUpTo({Digits(1), Digits(2), Text(40)}, MaxTabHistory)},
           {EmptyDict})

InputSpace == TabInputs \cup EditorInputs \cup TableInputs \cup HistoryInputs

Init ==
    /\ \E in \in InputSpace :
          /\ props = [defaultDbId |-> Num(1),
                      common |-> [conf |-> [DEFAULT_SQLLAB_LIMIT |-> Num(1000)]],
                      active_tab |-> in.active_tab,
                      tab_state_ids |-> in.tab_state_ids,
                      queries |-> in.queries]
          /\ localStorage = [redux |-> in.redux]
    /\ pc = "tabStateIds"
    /\ queryEditors = EmptyDict
    /\ tables = EmptyDict
    /\ queries = EmptyDict
    /\ tabHistory = << >>
    /\ unsavedQueryEditor = EmptyObject
    /\ sqlLab = BlankSqlLab
    /\ result = NoResult

Spec == Init /\ [][Next]_vars

(***************************************************************************)
(* Vocabulary of the properties.                                           *)
(***************************************************************************)
Done == pc = "done"

\* the stored item as the call found it: MigrationWasSuccessful is the only
\* step that changes the store, and it keeps what it parsed in sqlLab
FoundItem ==
    IF localStorage.redux = NoItem /\ sqlLab # BlankSqlLab THEN Json(sqlLab)
    ELSE localStorage.redux

FoundLab == FoundItem.sqlLab

\* the three ways of having no usable legacy state
NothingUsable(item) ==
    \/ item.kind \in {"none", "unparseable", "jsonNull"}
    \/ item.kind = "json" /\ ~item.hasSqlLab

AlreadyMigrated(item) ==
    /\ HasLegacyState(item)
    /\ "queryEditors" \in item.sqlLab.has
    /\ item.sqlLab.queryEditors = << >>

ToBeMerged(item) ==
    /\ HasLegacyState(item)
    /\ "queryEditors" \in item.sqlLab.has
    /\ item.sqlLab.queryEditors # << >>

\* an exception is raised somewhere inside the try block
RaisesException(item) ==
    \/ item.kind \in {"unparseable", "jsonNull"}
    \/ HasLegacyState(item) /\ "queryEditors" \notin item.sqlLab.has
    \/ ToBeMerged(item) /\ ~({"tables", "queries", "tabHistory"} \subseteq item.sqlLab.has)

\* the snapshot the server inputs alone give
ServerTables ==
    IF props.active_tab.present
    THEN AddServerTables(EmptyDict,
             SelectSeq(props.active_tab.table_schemas, LAMBDA ts : ~ts.description.null))
    ELSE EmptyDict

ServerEditors == AddServerEditors(EmptyDict, props.tab_state_ids)

ServerOnlyResult ==
    [queries |-> FromEntries(EmptyDict, ObjectEntries(props.queries)),
     queryEditors |-> ObjectValues(ServerEditors),
     tabHistory |-> InitialTabHistory,
     tables |-> ObjectValues(ServerTables),
     unsavedQueryEditor |-> EmptyObject]

IsTrue(x) == x = Bool(TRUE)

InLocalStorage(o) == IsTrue(Get(o, "inLocalStorage"))

IdsOf(objects) == {toString(Get(objects[i], "id")) : i \in 1..Len(objects)}

\* s without the elements that repeat their predecessor
CollapseRuns(s) ==
    LET keep == Ascending({i \in 1..Len(s) : i = 1 \/ s[i] # s[i - 1]})
    IN [j \in 1..Len(keep) |-> s[keep[j]]]

NoAdjacentRepeat(s) == \A i \in 1..(Len(s) - 1) : s[i] # s[i + 1]

(***************************************************************************)
(* Properties.                                                             *)
(***************************************************************************)

\* C1: in the returned snapshot, no two tables owned by the same editor are
\* both expanded, whatever the server and legacy tables are.
AtMostOneExpandedPerEditor ==
    Done =>
        \A i, j \in 1..Len(result.tables) :
            (/\ i # j
             /\ Get(result.tables[i], "queryEditorId") = Get(result.tables[j], "queryEditorId")
             /\ IsTrue(Get(result.tables[i], "expanded")))
                => ~IsTrue(Get(result.tables[j], "expanded"))

\* C7: in the returned snapshot every tabHistory entry and every table's
\* queryEditorId is the id of an editor of queryEditors.
NoOrphans ==
    Done =>
        /\ \A i \in 1..Len(result.tabHistory) :
               toString(result.tabHistory[i]) \in IdsOf(result.queryEditors)
        /\ \A i \in 1..Len(result.tables) :
               toString(Get(result.tables[i], "queryEditorId")) \in IdsOf(result.queryEditors)

\* C9: the returned queryEditors and tables list the entities in the order
\* in which their identifiers were first inserted during the merge.
InsertionOrderKept ==
    Done =>
        /\ [i \in 1..Len(result.queryEditors) |-> toString(Get(result.queryEditors[i], "id"))]
               = [i \in 1..Len(queryEditors) |-> queryEditors[i].key]
        /\ [i \in 1..Len(result.tables) |-> toString(Get(result.tables[i], "id"))]
               = [i \in 1..Len(tables) |-> tables[i].key]

\* C10: when an exception is raised while the legacy item is processed, the
\* call still returns and the snapshot is the one the server inputs alone give.
FailedLegacyLeavesNoTrace ==
    /\ (RaisesException(FoundItem) /\ ~Done) => ENABLED Next
    /\ (RaisesException(FoundItem) /\ Done) => result = ServerOnlyResult

\* the legacy editors the precedence claims speak about: for an id listed
\* more than once, the last record with that id
LastWithItsId(i) ==
    \A j \in (i + 1)..Len(sqlLab.queryEditors) :
        toString(Get(sqlLab.queryEditors[j], "id")) # toString(Get(sqlLab.queryEditors[i], "id"))

OutputEditor(id) ==
    result.queryEditors[CHOOSE k \in 1..Len(result.queryEditors) :
                            toString(Get(result.queryEditors[k], "id")) = toString(id)]

UnsavedApplies(qe) == Get(result.unsavedQueryEditor, "id") = Get(qe, "id")

\* the value precedence server < legacy < unsaved gives field f
ByPrecedence(qe, f) ==
    LET server == Lookup(ServerEditors, toString(Get(qe, "id"))) IN
    CASE f \in {"inLocalStorage", "loaded"} -> Bool(TRUE)
      [] f \notin {"inLocalStorage", "loaded"} /\ UnsavedApplies(qe)
            /\ f \in DOMAIN result.unsavedQueryEditor -> result.unsavedQueryEditor[f]
      [] f \notin {"inLocalStorage", "loaded"}
            /\ ~(UnsavedApplies(qe) /\ f \in DOMAIN result.unsavedQueryEditor)
            /\ f \in DOMAIN qe -> qe[f]
      [] OTHER -> server[f]

CoveredFields(qe) ==
    {"inLocalStorage", "loaded"}
        \cup DOMAIN Lookup(ServerEditors, toString(Get(qe, "id")))
        \cup DOMAIN qe
        \cup (IF UnsavedApplies(qe) THEN DOMAIN result.unsavedQueryEditor ELSE {})

PrecedenceOn(fields) ==
    (Done /\ ToBeMerged(FoundItem)) =>
        \A i \in 1..Len(sqlLab.queryEditors) :
            LastWithItsId(i) =>
                LET qe == sqlLab.queryEditors[i]
                    out == OutputEditor(Get(qe, "id"))
                IN \A f \in CoveredFields(qe) \cap fields :
                       f \in DOMAIN out /\ out[f] = ByPrecedence(qe, f)

EditorFields ==
    {"id", "loaded", "name", "sql", "selectedText", "latestQueryId", "remoteId",
     "autorun", "templateParams", "dbId", "schema", "queryLimit", "validationResult",
     "hideLeftBar", "title", "inLocalStorage"}

\* C2: every merged legacy editor is built with precedence server < legacy <
\* unsaved on every field, unsaved edits applying only to the editor whose id
\* they carry, and is marked inLocalStorage and loaded.
LegacyPrecedence == PrecedenceOn(EditorFields)

\* C2 restricted to the fields other than `name` (what is left of the claim
\* once the name rule of C3 is set aside)
LegacyPrecedenceExceptName == PrecedenceOn(EditorFields \ {"name"})

\* C3: the merged name is the legacy name when the legacy record has one, the
\* legacy title when it has a title but no name, and the server-derived name
\* when it has neither.
TitleOnlyWithoutName ==
    (Done /\ ToBeMerged(FoundItem)) =>
        \A i \in 1..Len(sqlLab.queryEditors) :
            LET qe == sqlLab.queryEditors[i]
                out == OutputEditor(Get(qe, "id"))
                server == Lookup(ServerEditors, toString(Get(qe, "id")))
            IN (LastWithItsId(i) /\ ~UnsavedApplies(qe)) =>
                   /\ "name" \in DOMAIN qe => Get(out, "name") = qe.name
                   /\ ("name" \notin DOMAIN qe /\ "title" \in DOMAIN qe)
                          => Get(out, "name") = qe.title
                   /\ ("name" \notin DOMAIN qe /\ "title" \notin DOMAIN qe
                          /\ "name" \in DOMAIN server)
                          => Get(out, "name") = server.name

\* C4: with no `redux` item, an item that does not parse, or a parsed value
\* without sqlLab, the call returns, the snapshot is the one the server inputs
\* alone give (unsavedQueryEditor = {}), and the stored item is left alone.
NoUsableLegacyIsNoOp ==
    /\ [](/\ (NothingUsable(FoundItem) /\ ~Done) => ENABLED Next
          /\ (NothingUsable(FoundItem) /\ Done) =>
                 /\ result = ServerOnlyResult
                 /\ result.unsavedQueryEditor = EmptyObject
                 /\ \A i \in 1..Len(result.queryEditors) :
                        ~InLocalStorage(result.queryEditors[i]))
    /\ [][NothingUsable(localStorage.redux) => localStorage' = localStorage]_vars

NoUsableLegacyReturned ==
    /\ Done
    /\ localStorage.redux \in {Unparseable, JsonWithoutSqlLab}
    /\ props.active_tab.present
    /\ Len(result.queryEditors) = 2
    /\ Len(result.tabHistory) = 1

\* C5: a parsed sqlLab whose queryEditors is empty gets the `redux` item
\* removed and contributes nothing to the snapshot, which then has no editor
\* or query marked inLocalStorage; the item is removed in no other case.
MigratedItemIsRemovedOnly ==
    /\ []((AlreadyMigrated(FoundItem) /\ Done) =>
              /\ localStorage.redux = NoItem
              /\ result = ServerOnlyResult
              /\ \A i \in 1..Len(result.queryEditors) :
                     ~InLocalStorage(result.queryEditors[i])
              /\ \A i \in 1..Len(result.queries) :
                     ~InLocalStorage(result.queries[i].val))
    /\ [][localStorage' # localStorage =>
              (AlreadyMigrated(localStorage.redux) /\ localStorage'.redux = NoItem)]_vars

MigratedItemRemoved ==
    /\ Done
    /\ AlreadyMigrated(FoundItem)
    /\ FoundLab.tables # << >> /\ FoundLab.tabHistory # << >>
    /\ FoundLab.queries # EmptyDict
    /\ localStorage.redux = NoItem
    /\ Len(result.queryEditors) > 0

\* C6: the returned tabHistory is the active tab's id (when there is an
\* active tab) followed by the merged legacy tabHistory, with every entry
\* that repeats its predecessor dropped: adjacent entries differ, later
\* revisits stay, order is kept, and dedupeTabHistory leaves it unchanged.
TabHistoryIsCollapsedVisits ==
    Done =>
        LET merged == ToBeMerged(FoundItem) /\ ~RaisesException(FoundItem)
            first == IF props.active_tab.present
                     THEN <<toString(props.active_tab.id)>> ELSE << >>
            visits == first \o (IF merged THEN FoundLab.tabHistory ELSE << >>)
        IN /\ result.tabHistory = CollapseRuns(visits)
           /\ NoAdjacentRepeat(result.tabHistory)
           /\ dedupeTabHistory(result.tabHistory) = result.tabHistory

\* the visits a, b, b, a with a the active tab: merged and collapsed to a, b, a
RevisitSurvivesCollapse ==
    /\ Done
    /\ props.active_tab.present
    /\ ToBeMerged(FoundItem)
    /\ FoundLab.tabHistory = <<Text(40), Text(40), Digits(1)>>
    /\ result.tabHistory = <<Digits(1), Text(40), Digits(1)>>

\* C8: in the returned snapshot no two editors and no two tables have the
\* same identifier, a number and its string form counting as the same.
IdentifiersUnique ==
    Done =>
        /\ \A i, j \in 1..Len(result.queryEditors) :
               i # j => toString(Get(result.queryEditors[i], "id"))
                            # toString(Get(result.queryEditors[j], "id"))
        /\ \A i, j \in 1..Len(result.tables) :
               i # j => toString(Get(result.tables[i], "id"))
                            # toString(Get(result.tables[j], "id"))

\* server tab 1 and two legacy records for editor 1 (given as a number) end
\* up as one editor
SameEditorFromBothSources ==
    /\ Done
    /\ ToBeMerged(FoundItem)
    /\ Len(FoundLab.queryEditors) = 2
    /\ \A i \in 1..2 : Get(FoundLab.queryEditors[i], "id") = Num(1)
    /\ HasKey(ServerEditors, Digits(1))
    /\ Cardinality({k \in 1..Len(result.queryEditors) :
                       toString(Get(result.queryEditors[k], "id")) = Digits(1)}) = 1

====
